---------------------------- MODULE Spec2Model ----------------------------
(***************************************************************************)
(* A model of term-ai (src/src/main.rs): the multi-turn tool-calling loop  *)
(* chat_with_tools, tool execution, the two search providers and provider  *)
(* selection.                                                              *)
(*                                                                         *)
(* Text is modelled as a sequence of tokens (strings), so that format!,    *)
(* trimming and "starts with" are computed on the text and not assumed.    *)
(* Option<T> is modelled as a sequence of length 0 (None) or 1 (Some).     *)
(* Result<T, E> is modelled as [ok |-> TRUE, val |-> v] or                 *)
(* [ok |-> FALSE, err |-> text].                                           *)
(***************************************************************************)
EXTENDS Integers, Sequences, FiniteSets, TLC

VARIABLES
    state,      \* position of chat_with_tools: AwaitingModel, ExecutingTools, Done, Failed
    messages,   \* the conversation (chat_with_tools' `messages`)
    iteration,  \* the `for _iteration in 0..MAX_ITERATIONS` counter
    pending,    \* tool calls of the current turn not yet executed (inner for loop)
    outcome,    \* Option of the Result chat_with_tools returns
    user_request, \* chat_with_tools' user_request argument
    provider,   \* chat_with_tools' provider argument
    max_results, \* chat_with_tools' max_results argument
    responses,  \* history: the Result of every call_ollama_chat call, in order
    execLog,    \* history: every execute_tool call, with its turn and its Result
    searches,   \* history: every provider.search invocation
    sent,       \* history: the ChatRequest of every call_ollama_chat call
    budget,     \* exploration budget left for non-routine environment behaviour
    mainpc,     \* position of main: start, dispatch, chat, report, exited
    args,       \* the parsed command line (Args)
    stdin,      \* what reading standard input to its end gives (a Result)
    stdin_read, \* history: standard input has been read
    user_prompt, \* Option of main's user_prompt
    selected,   \* Option of the provider create_search_provider returned
    legacy,     \* Option of the Result of the legacy call_ollama call
    generated,  \* history: the prompt of every call_ollama call
    stdout,     \* the lines written to standard output
    stderr,     \* the lines written to standard error
    exit_code,  \* Option of the exit code
    searchIn,   \* a provider search on its own: its inputs
    searchOut   \* a provider search on its own: Option of its Result

loopVars == <<state, messages, iteration, pending, outcome, user_request,
              provider, max_results, responses, execLog, searches, sent,
              budget>>

mainVars == <<mainpc, args, stdin, stdin_read, user_prompt, selected, legacy, generated,
              stdout, stderr, exit_code>>

searchVars == <<searchIn, searchOut>>

vars == <<loopVars, mainVars, searchVars>>

---------------------------------------------------------------------------
(* Bounds of the exploration *)

\* How much non-routine behaviour of the environment (model server, search
\* backend, caller) one run may contain; see ReplyCost, WebCost, EntryCost
\* and ArgsCost.
MaxSurprises == 2

\* The same, for the runs checked for termination under fairness.
MaxFairSurprises == 1

\* Longest list of source records a search on its own is given.
MaxRecords == 3

\* Largest max_results the caller passes.
MaxMaxResults == 2

---------------------------------------------------------------------------
(* Option, Result and text helpers *)

None == <<>>
Some(v) == <<v>>
IsSome(o) == Len(o) = 1
Unwrap(o) == o[1]

Ok(v) == [ok |-> TRUE, val |-> v]
Err(e) == [ok |-> FALSE, err |-> e]

\* Whitespace tokens, as str::trim sees them.
Whitespace == {" ", "\n"}

RECURSIVE TrimStart(_)
TrimStart(t) ==
    IF t # <<>> /\ Head(t) \in Whitespace THEN TrimStart(Tail(t)) ELSE t

RECURSIVE TrimEnd(_)
TrimEnd(t) ==
    IF t # <<>> /\ t[Len(t)] \in Whitespace
    THEN TrimEnd(SubSeq(t, 1, Len(t) - 1))
    ELSE t

\* str::trim
Trim(t) == TrimEnd(TrimStart(t))

\* Iterator::take(n) on a sequence
Take(s, n) == SubSeq(s, 1, IF n < Len(s) THEN n ELSE Len(s))

StartsWith(t, prefix) ==
    /\ Len(prefix) <= Len(t)
    /\ SubSeq(t, 1, Len(prefix)) = prefix

---------------------------------------------------------------------------
(* serde_json::Value, as far as the program reads it *)

JNull == [kind |-> "null"]
JStr(s) == [kind |-> "string", str |-> s]
JNum(n) == [kind |-> "number", num |-> n]
JObj(f) == [kind |-> "object", fields |-> f]

\* Value's Index<&str>: Null unless the value is an object holding the key.
JIndex(v, key) ==
    IF v.kind = "object" /\ key \in DOMAIN v.fields THEN v.fields[key] ELSE JNull

\* Value::as_str
as_str(v) == IF v.kind = "string" THEN Some(v.str) ELSE None

NoFields == [k \in {} |-> JNull]


---------------------------------------------------------------------------
(* Search providers *)

SearchResult(t, u, s) == [title |-> t, url |-> u, snippet |-> s]

DuckDuckGoProvider == [name |-> "duckduckgo"]
BraveProvider(key) == [name |-> "brave", api_key |-> key]

\* One result block of the DuckDuckGo document: the text of the first element
\* matching the selector, trimmed, or the empty string when there is none.
DdgField(o) == IF IsSome(o) THEN Trim(Unwrap(o)) ELSE <<>>

\* One item of the Brave results array: item[key].as_str().unwrap_or("").
BraveField(o) == IF IsSome(o) THEN Unwrap(o) ELSE <<>>

DdgRecord(r) ==
    SearchResult(DdgField(r.title), DdgField(r.url), DdgField(r.snippet))

BraveRecord(r) ==
    SearchResult(BraveField(r.title), BraveField(r.url), BraveField(r.snippet))

\* The `if !title.is_empty() && !url.is_empty()` guard of both providers.
WellFormed(res) == res.title # <<>> /\ res.url # <<>>

\* The body of both providers' for loops over the records they were handed:
\* push the record when it has a title and a url.
RECURSIVE PushWellFormed(_)
PushWellFormed(rs) ==
    IF rs = <<>> THEN <<>>
    ELSE (IF WellFormed(Head(rs)) THEN <<Head(rs)>> ELSE <<>>)
         \o PushWellFormed(Tail(rs))

RECURSIVE MapDdg(_)
MapDdg(rs) ==
    IF rs = <<>> THEN <<>> ELSE <<DdgRecord(Head(rs))>> \o MapDdg(Tail(rs))

RECURSIVE MapBrave(_)
MapBrave(rs) ==
    IF rs = <<>> THEN <<>> ELSE <<BraveRecord(Head(rs))>> \o MapBrave(Tail(rs))

\* Mutant of DdgCollect: every block of the document is collected
DdgCollect_NoTake(blocks, max) == PushWellFormed(MapDdg(blocks))

\* `document.select(&result_selector).take(max_results)` and the loop body.
DdgCollect(blocks, max) == PushWellFormed(MapDdg(Take(blocks, max)))

\* `web_results.iter().take(max_results)` and the loop body.
BraveCollect(items, max) == PushWellFormed(MapBrave(Take(items, max)))

\* What the search backend answers to one request:
\*   unreachable: send() fails (connection, timeout);
\*   status: a non-success status;
\*   page: a success status with a body. `parses` is whether the body is valid
\*   JSON (read by Brave only); `results` is the Option of the record list (the
\*   .result blocks of the document, the web.results array of the JSON).
Unreachable == [kind |-> "unreachable"]
BadStatus(st) == [kind |-> "status", status |-> st]
Page(p, rs) == [kind |-> "page", parses |-> p, results |-> rs]

DuckDuckGoSearch(query, max, web) ==
    IF web.kind = "unreachable" THEN Err(<<"error sending request">>)
    ELSE IF web.kind = "status"
    THEN Err(<<"DuckDuckGo returned status: ", web.status>>)
    ELSE Ok(DdgCollect(IF IsSome(web.results) THEN Unwrap(web.results) ELSE <<>>,
                       max))

BraveSearch(query, max, web) ==
    IF web.kind = "unreachable" THEN Err(<<"error sending request">>)
    ELSE IF web.kind = "status"
    THEN Err(<<"Brave API returned status: ", web.status>>)
    ELSE IF ~web.parses THEN Err(<<"error decoding response body">>)
    ELSE IF IsSome(web.results)
    THEN Ok(BraveCollect(Unwrap(web.results), max))
    ELSE Ok(<<>>)

\* provider.search(query, max_results) through the SearchProvider trait object
ProviderSearch(p, query, max, web) ==
    IF p.name = "duckduckgo" THEN DuckDuckGoSearch(query, max, web)
    ELSE BraveSearch(query, max, web)

\* serde_json::to_string_pretty(&results): the fields of every result in the
\* order title, url, snippet
RECURSIVE PrettyItems(_)
PrettyItems(rs) ==
    IF rs = <<>> THEN <<>>
    ELSE <<"{", "title: ">> \o Head(rs).title \o <<"url: ">> \o Head(rs).url
         \o <<"snippet: ">> \o Head(rs).snippet \o <<"}">>
         \o PrettyItems(Tail(rs))

to_string_pretty(rs) == <<"[">> \o PrettyItems(rs) \o <<"]">>

---------------------------------------------------------------------------
(* Tool execution *)

ToolCall(id, name, arguments) ==
    [id |-> id, call_type |-> Some("function"),
     function |-> [index |-> None, name |-> name, arguments |-> arguments]]

UnknownTool(name) == <<"Unknown tool: ", name>>
MissingParameter == <<"Missing 'query' parameter in tool call">>

\* The query execute_tool hands to the provider, if it gets that far:
\* the "web_search" arm and `arguments["query"].as_str()`.
\* Mutant of SearchQuery: a query that is a number is taken as text
SearchQuery_Lenient(tool_call) ==
    IF tool_call.function.name = "web_search"
    THEN LET v == JIndex(tool_call.function.arguments, "query")
         IN  IF v.kind = "number" THEN Some(<<"number">>) ELSE as_str(v)
    ELSE None

SearchQuery(tool_call) ==
    IF tool_call.function.name = "web_search"
    THEN as_str(JIndex(tool_call.function.arguments, "query"))
    ELSE None

\* Mutant of execute_tool: the tool name is not looked at
execute_tool_AnyName(tool_call, p, max, web) ==
    LET query == as_str(JIndex(tool_call.function.arguments, "query"))
    IN  IF ~IsSome(query) THEN Err(MissingParameter)
        ELSE LET results == ProviderSearch(p, Unwrap(query), max, web)
             IN  IF results.ok THEN Ok(to_string_pretty(results.val))
                 ELSE Err(results.err)

\* execute_tool; `web` is what the search backend answers if it is asked.
execute_tool(tool_call, p, max, web) ==
    IF tool_call.function.name = "web_search"
    THEN LET query == SearchQuery(tool_call)
         IN  IF ~IsSome(query) THEN Err(MissingParameter)
             ELSE LET results == ProviderSearch(p, Unwrap(query), max, web)
                  IN  IF results.ok THEN Ok(to_string_pretty(results.val))
                      ELSE Err(results.err)
    ELSE Err(UnknownTool(tool_call.function.name))

---------------------------------------------------------------------------
(* The model client *)

Message(role, content, tool_calls) ==
    [role |-> role, content |-> content, tool_calls |-> tool_calls]

\* What the model server answers to one POST /api/chat:
\*   unreachable: send() fails; status: a non-success status with an Option of
\*   the body text; body: a success status whose body parses to a ChatResponse
\*   (parsed = Some(message)) or does not (parsed = None).
\* build_tool_definitions: the tools declared to the model
Tool(tool_type, function) == [type |-> tool_type, function |-> function]

Function(name, description, parameters) ==
    [name |-> name, description |-> description, parameters |-> parameters]

build_tool_definitions ==
    << Tool("function",
            Function("web_search",
                     <<"Search the web for current information, latest versions, recent documentation, or up-to-date facts.">>,
                     [type |-> "object",
                      properties |->
                          [query |-> [type |-> "string",
                                      description |-> <<"The search query to execute">>]],
                      required |-> <<"query">>])) >>

\* ChatRequest, the body call_ollama_chat posts
ChatRequest(msgs, tools) == [messages |-> msgs, tools |-> tools]

ChatUnreachable == [kind |-> "unreachable"]
ChatStatus(st, body) == [kind |-> "status", status |-> st, body |-> body]
ChatBody(parsed) == [kind |-> "body", parsed |-> parsed]

\* call_ollama_chat, given the server's answer
call_ollama_chat(reply) ==
    IF reply.kind = "unreachable" THEN Err(<<"error sending request">>)
    ELSE IF reply.kind = "status"
    THEN Err(<<"Ollama returned status ", reply.status, ": ">>
             \o (IF IsSome(reply.body) THEN Unwrap(reply.body)
                 ELSE <<"Unknown error">>))
    ELSE IF ~IsSome(reply.parsed) THEN Err(<<"error decoding response body">>)
    ELSE Ok([message |-> Unwrap(reply.parsed)])

---------------------------------------------------------------------------
(* The orchestration loop: chat_with_tools *)

MAX_ITERATIONS == 10

SystemPrompt ==
    <<"You are an expert macOS terminal and development environment engineer.",
      "Constraints:",
      "When you need current information, use the web_search tool.">>

\* Mutant of build_initial_messages: the request is trimmed
build_initial_messages_Trimmed(request) ==
    << [role |-> "system", content |-> SystemPrompt, tool_calls |-> None],
       [role |-> "user", content |-> Trim(request), tool_calls |-> None] >>

build_initial_messages(request) ==
    << Message("system", SystemPrompt, None),
       Message("user", request, None) >>

MaxIterationsExceeded ==
    <<"Maximum iterations (", "10",
      ") exceeded. The model may be stuck in a tool-calling loop.">>

\* Mutant of HasToolCalls: the is_empty test is left out
HasToolCalls_AnyList(m) == IsSome(m.tool_calls)

\* `if let Some(tool_calls) = &response.message.tool_calls` and
\* `if !tool_calls.is_empty()`
HasToolCalls(m) == IsSome(m.tool_calls) /\ Unwrap(m.tool_calls) # <<>>

\* Mutant of ToolResultText: the error is passed on without the prefix
ToolResultText_NoPrefix(res) == IF res.ok THEN res.val ELSE res.err

\* The match on execute_tool's Result: the tool message's content
ToolResultText(res) ==
    IF res.ok THEN res.val ELSE <<"Error executing tool:", " ">> \o res.err

\* Mutant of ToolMessage: the result is pushed in the assistant's role
ToolMessage_AsAssistant(res) == Message("assistant", ToolResultText(res), None)

ToolMessage(res) == Message("tool", ToolResultText(res), None)

\* Mutant of HasNextIteration: an inclusive range, 0..=MAX_ITERATIONS
HasNextIteration_Inclusive(it) == it + 1 <= MAX_ITERATIONS

\* Whether the for loop has another iteration after iteration `it`
HasNextIteration(it) == it + 1 < MAX_ITERATIONS

---------------------------------------------------------------------------
(* The environment: what the caller, the model server and the search       *)
(* backend may do.  One behaviour of each is the routine one; every other  *)
(* behaviour spends exploration budget.                                    *)

Requests == { <<"install rust">>, <<" ", "list files", "\n">> }
RoutineRequest == <<"install rust">>

Providers == { DuckDuckGoProvider, BraveProvider(<<"test-key">>) }

MaxResultsValues == 0 .. MaxMaxResults
RoutineMaxResults == IF MaxMaxResults < 2 THEN MaxMaxResults ELSE 2

SearchCall == ToolCall("call_1", "web_search",
                       JObj([query |-> JStr(<<"rust latest version">>)]))
NoQueryCall == ToolCall("call_2", "web_search", JObj(NoFields))
NumQueryCall == ToolCall("call_3", "web_search", JObj([query |-> JNum(7)]))
UnknownCall == ToolCall("call_4", "calculator",
                        JObj([query |-> JStr(<<"2+2">>)]))

ToolCalls == { SearchCall, NoQueryCall, NumQueryCall, UnknownCall }

\* The tool_calls lists of at most k calls
CallLists(k) == UNION { [1..n -> ToolCalls] : n \in 1..k }

Contents == { <<>>, <<"brew install rust">> }

\* The model server answers with role "assistant" (the /api/chat protocol).
\* A list of k calls costs at least k - 1 (see MessageCost), so with budget b
\* the lists of up to b + 1 calls are all that can be afforded.
ReplyMessages(b) ==
    { Message("assistant", c, tc) :
        c \in Contents,
        tc \in {None, Some(<<>>)} \cup { Some(l) : l \in CallLists(b + 1) } }

ChatReplies(b) ==
    { ChatUnreachable, ChatStatus("500", Some(<<"model not found">>)),
      ChatBody(None) }
    \cup { ChatBody(Some(m)) : m \in ReplyMessages(b) }

RoutineFinal == Message("assistant", <<"brew install rust">>, None)

GoodRecord1 == [title |-> Some(<<"Rust 1.80">>),
                url |-> Some(<<"https://rust-lang.org">>),
                snippet |-> Some(<<"release notes">>)]
GoodRecord2 == [title |-> Some(<<" ", "Install Rust", " ">>),
                url |-> Some(<<"https://rustup.rs">>),
                snippet |-> None]
NoTitleRecord == [title |-> None,
                  url |-> Some(<<"https://ads.example">>),
                  snippet |-> Some(<<"sponsored">>)]
NoUrlRecord == [title |-> Some(<<"Rust book">>),
                url |-> None,
                snippet |-> Some(<<"the book">>)]
BlankTitleRecord == [title |-> Some(<<" ">>),
                     url |-> Some(<<"https://blank.example">>),
                     snippet |-> None]

RoutineWeb == Page(TRUE, Some(<<GoodRecord1>>))

LoopWebs ==
    { RoutineWeb, BadStatus("503"),
      Page(TRUE, Some(<<NoTitleRecord, GoodRecord1, GoodRecord2>>)) }

RECURSIVE SumCallCost(_)
SumCallCost(l) ==
    IF l = <<>> THEN 0
    ELSE (IF Head(l) = SearchCall THEN 0 ELSE 1) + SumCallCost(Tail(l))

MessageCost(m) ==
    IF HasToolCalls(m)
    THEN (IF m.content = <<>> THEN 0 ELSE 1)
         + (Len(Unwrap(m.tool_calls)) - 1)
         + SumCallCost(Unwrap(m.tool_calls))
    ELSE IF m = RoutineFinal THEN 0 ELSE 1

ReplyCost(reply) ==
    IF reply.kind = "body" /\ IsSome(reply.parsed)
    THEN MessageCost(Unwrap(reply.parsed))
    ELSE 1

WebCost(web) == IF web = RoutineWeb THEN 0 ELSE 1

EntryCost(request, p, max) ==
    (IF request = RoutineRequest THEN 0 ELSE 1)
    + (IF p = DuckDuckGoProvider THEN 0 ELSE 1)
    + (IF max = RoutineMaxResults THEN 0 ELSE 1)

---------------------------------------------------------------------------
(* chat_with_tools as a state machine *)

\* Entry of chat_with_tools: the conversation is built, the loop starts.
EnterLoop(request, p, max, b) ==
    /\ state = "AwaitingModel"
    /\ messages = build_initial_messages(request)
    /\ iteration = 0
    /\ pending = <<>>
    /\ outcome = None
    /\ user_request = request
    /\ provider = p
    /\ max_results = max
    /\ responses = <<>>
    /\ execLog = <<>>
    /\ searches = <<>>
    /\ sent = <<>>
    /\ budget = b

\* main is not part of the run
MainIdle ==
    /\ mainpc = "idle"
    /\ args = None
    /\ stdin = None
    /\ stdin_read = FALSE
    /\ user_prompt = None
    /\ selected = None
    /\ legacy = None
    /\ generated = <<>>
    /\ stdout = <<>>
    /\ stderr = <<>>
    /\ exit_code = None

\* no provider search on its own is part of the run
SearchIdle ==
    /\ searchIn = None
    /\ searchOut = None

\* chat_with_tools is not part of the run
LoopIdle(b) ==
    /\ state = "Idle"
    /\ messages = <<>>
    /\ iteration = 0
    /\ pending = <<>>
    /\ outcome = None
    /\ user_request = <<>>
    /\ provider = None
    /\ max_results = 0
    /\ responses = <<>>
    /\ execLog = <<>>
    /\ searches = <<>>
    /\ sent = <<>>
    /\ budget = b

\* chat_with_tools called with any request, provider and max_results
Init ==
    /\ \E request \in Requests, p \in Providers, max \in MaxResultsValues :
        /\ EntryCost(request, p, max) <= MaxSurprises
        /\ EnterLoop(request, p, max, MaxSurprises - EntryCost(request, p, max))
    /\ MainIdle
    /\ SearchIdle

\* Mutant of ModelCallFailed: the failed call is retried
ModelCallFailed_Retry(err) ==
    /\ state' = "AwaitingModel"
    /\ UNCHANGED <<outcome, messages, pending, iteration>>

\* `call_ollama_chat(...)?` failed: the error is returned
ModelCallFailed(err) ==
    /\ state' = "Failed"
    /\ outcome' = Some(Err(err))
    /\ UNCHANGED <<messages, pending, iteration>>

\* Mutant of ToolCallsRequested: only the first tool call is executed
ToolCallsRequested_FirstOnly(m) ==
    /\ messages' = Append(messages, m)
    /\ pending' = <<Head(Unwrap(m.tool_calls))>>
    /\ state' = "ExecutingTools"
    /\ UNCHANGED <<outcome, iteration>>

\* The response carries tool calls: push it and start executing them
ToolCallsRequested(m) ==
    /\ messages' = Append(messages, m)
    /\ pending' = Unwrap(m.tool_calls)
    /\ state' = "ExecutingTools"
    /\ UNCHANGED <<outcome, iteration>>

\* Mutant of FinalAnswer: the final message is pushed before returning
FinalAnswer_Pushed(m) ==
    /\ state' = "Done"
    /\ outcome' = Some(Ok(m.content))
    /\ messages' = Append(messages, m)
    /\ UNCHANGED <<pending, iteration>>

\* No tool calls: `return Ok(response.message.content)`
FinalAnswer(m) ==
    /\ state' = "Done"
    /\ outcome' = Some(Ok(m.content))
    /\ UNCHANGED <<messages, pending, iteration>>

\* Mutant of RequestSent: the tools are declared on the first call only
RequestSent_FirstCallOnly ==
    ChatRequest(messages,
                IF iteration = 0 THEN Some(build_tool_definitions) ELSE None)

\* The request of `call_ollama_chat(&messages, Some(tools.clone()), ..)`
RequestSent == ChatRequest(messages, Some(build_tool_definitions))

\* One iteration of the for loop up to the inner loop: the model call and
\* the branch on its result.
CallModel ==
    /\ state = "AwaitingModel"
    /\ \E reply \in ChatReplies(budget) :
        /\ ReplyCost(reply) <= budget
        /\ budget' = budget - ReplyCost(reply)
        /\ LET response == call_ollama_chat(reply)
           IN  /\ responses' = Append(responses, response)
               /\ sent' = Append(sent, RequestSent)
               /\ IF ~response.ok THEN ModelCallFailed(response.err)
                  ELSE IF HasToolCalls(response.val.message)
                  THEN ToolCallsRequested(response.val.message)
                  ELSE FinalAnswer(response.val.message)
    /\ UNCHANGED <<user_request, provider, max_results, execLog, searches>>
    /\ UNCHANGED <<mainVars, searchVars>>

\* Mutant of ContinueLoop: the for loop has no upper end
ContinueLoop_NoCap ==
    /\ iteration' = iteration + 1
    /\ state' = "AwaitingModel"
    /\ UNCHANGED outcome

\* `continue` after the last tool call of the turn: the next iteration, or
\* the end of the for loop and the error after it.
ContinueLoop ==
    IF HasNextIteration(iteration)
    THEN /\ iteration' = iteration + 1
         /\ state' = "AwaitingModel"
         /\ UNCHANGED outcome
    ELSE /\ iteration' = iteration + 1
         /\ state' = "Failed"
         /\ outcome' = Some(Err(MaxIterationsExceeded))

\* Mutant of PushToolResult: the tool message replaces the last message
PushToolResult_Overwrite(res) ==
    messages' = [messages EXCEPT ![Len(messages)] = ToolMessage(res)]

\* Mutant of PushToolResult: a failed execution leaves no tool message
PushToolResult_SkipErrors(res) ==
    messages' = IF res.ok THEN Append(messages, ToolMessage(res)) ELSE messages

\* `messages.push(Message { role: "tool", content: tool_result, .. })`
PushToolResult(res) == messages' = Append(messages, ToolMessage(res))

\* The search backends a tool call can meet: none unless it reaches the provider
WebsFor(tool_call) ==
    IF IsSome(SearchQuery(tool_call)) THEN LoopWebs ELSE {RoutineWeb}

\* Mutant of AfterToolCall: the cap is tested before the remaining tool calls
\* of the turn are executed
AfterToolCall_CapFirst(rest) ==
    IF ~HasNextIteration(iteration)
    THEN /\ pending' = <<>>
         /\ iteration' = iteration + 1
         /\ state' = "Failed"
         /\ outcome' = Some(Err(MaxIterationsExceeded))
    ELSE /\ pending' = rest
         /\ IF rest = <<>> THEN ContinueLoop
            ELSE UNCHANGED <<state, iteration, outcome>>

\* The end of one pass of the inner for loop: the next tool call of the
\* turn, or `continue` after the last one
AfterToolCall(rest) ==
    /\ pending' = rest
    /\ IF rest = <<>> THEN ContinueLoop
       ELSE UNCHANGED <<state, iteration, outcome>>

\* One pass of the inner for loop: execute the next tool call, push its tool
\* message; after the last one, `continue`.
ExecuteTool ==
    /\ state = "ExecutingTools"
    /\ pending # <<>>
    /\ LET tool_call == Head(pending)
       IN  \E web \in WebsFor(tool_call) :
            /\ WebCost(web) <= budget
            /\ budget' = budget - WebCost(web)
            /\ LET res == execute_tool(tool_call, provider, max_results, web)
               IN  /\ PushToolResult(res)
                   /\ execLog' = Append(execLog,
                          [turn |-> Len(responses), call |-> tool_call,
                           result |-> res])
            /\ searches' =
                 IF IsSome(SearchQuery(tool_call))
                 THEN Append(searches,
                        [turn |-> Len(responses), call |-> tool_call,
                         query |-> Unwrap(SearchQuery(tool_call)),
                         max |-> max_results])
                 ELSE searches
    /\ AfterToolCall(Tail(pending))
    /\ UNCHANGED <<user_request, provider, max_results, responses, sent>>
    /\ UNCHANGED <<mainVars, searchVars>>

Next == CallModel \/ ExecuteTool

Spec == Init /\ [][Next]_vars

\* chat_with_tools called with any request, provider and max_results, in an
\* environment with at most MaxFairSurprises non-routine behaviours
InitFair ==
    /\ \E request \in Requests, p \in Providers, max \in MaxResultsValues :
        /\ EntryCost(request, p, max) <= MaxFairSurprises
        /\ EnterLoop(request, p, max,
                     MaxFairSurprises - EntryCost(request, p, max))
    /\ MainIdle
    /\ SearchIdle

\* The loop is sequential code and every call it makes returns (the HTTP
\* clients are built with a timeout): a step that can be taken is taken.
SpecFair == InitFair /\ [][Next]_vars /\ WF_vars(Next)

---------------------------------------------------------------------------
(* Provider selection: create_search_provider *)

\* Provider names are sequences of characters, so that lower-casing is
\* computed.
UpperToLower ==
    [c \in {"A", "B", "C", "D", "E", "G", "K", "O", "R", "U", "V"} |->
        CASE c = "A" -> "a" [] c = "B" -> "b" [] c = "C" -> "c"
          [] c = "D" -> "d" [] c = "E" -> "e" [] c = "G" -> "g"
          [] c = "K" -> "k" [] c = "O" -> "o" [] c = "R" -> "r"
          [] c = "U" -> "u" [] c = "V" -> "v"]

\* str::to_lowercase
to_lowercase(name) ==
    [i \in 1..Len(name) |->
        IF name[i] \in DOMAIN UpperToLower THEN UpperToLower[name[i]]
        ELSE name[i]]

NameDuckDuckGo == <<"d", "u", "c", "k", "d", "u", "c", "k", "g", "o">>
NameBrave == <<"b", "r", "a", "v", "e">>

MissingCredential ==
    <<"Brave search provider requires an API key. Provide via --brave-api-key or BRAVE_API_KEY environment variable.">>

UnknownProvider(name) ==
    <<"Unknown search provider: '">> \o name
    \o <<"'. Valid options: duckduckgo, brave">>

\* Mutant of create_search_provider: the explicit name is matched as written
create_search_provider_CaseSensitive(a) ==
    LET name == IF IsSome(a.search_provider) THEN Unwrap(a.search_provider)
                ELSE IF IsSome(a.brave_api_key) THEN NameBrave
                ELSE NameDuckDuckGo
    IN  IF name = NameDuckDuckGo THEN Ok(DuckDuckGoProvider)
        ELSE IF name = NameBrave
        THEN (IF IsSome(a.brave_api_key)
              THEN Ok(BraveProvider(Unwrap(a.brave_api_key)))
              ELSE Err(MissingCredential))
        ELSE Err(UnknownProvider(name))

\* Mutant of create_search_provider: a key is preferred to the explicit name
create_search_provider_KeyFirst(a) ==
    LET name == IF IsSome(a.brave_api_key) THEN NameBrave
                ELSE IF IsSome(a.search_provider)
                THEN to_lowercase(Unwrap(a.search_provider))
                ELSE NameDuckDuckGo
    IN  IF name = NameDuckDuckGo THEN Ok(DuckDuckGoProvider)
        ELSE IF name = NameBrave
        THEN (IF IsSome(a.brave_api_key)
              THEN Ok(BraveProvider(Unwrap(a.brave_api_key)))
              ELSE Err(MissingCredential))
        ELSE Err(UnknownProvider(name))

create_search_provider(a) ==
    LET name == IF IsSome(a.search_provider)
                THEN to_lowercase(Unwrap(a.search_provider))
                ELSE IF IsSome(a.brave_api_key) THEN NameBrave
                ELSE NameDuckDuckGo
    IN  IF name = NameDuckDuckGo THEN Ok(DuckDuckGoProvider)
        ELSE IF name = NameBrave
        THEN (IF IsSome(a.brave_api_key)
              THEN Ok(BraveProvider(Unwrap(a.brave_api_key)))
              ELSE Err(MissingCredential))
        ELSE Err(UnknownProvider(name))

---------------------------------------------------------------------------
(* The legacy path: build_prompt and call_ollama *)

build_prompt(request) ==
    <<"You are an expert macOS terminal and development environment engineer.",
      "Constraints:", "User request:", "\n">> \o request

\* call_ollama, given the server's answer to POST /api/generate
\* (parsed = Some(response text) or None for a body that does not parse)
call_ollama(reply) ==
    IF reply.kind = "unreachable" THEN Err(<<"error sending request">>)
    ELSE IF reply.kind = "status"
    THEN Err(<<"Ollama returned status: ", reply.status>>)
    ELSE IF ~IsSome(reply.parsed) THEN Err(<<"error decoding response body">>)
    ELSE Ok(Unwrap(reply.parsed))

RoutineGenerate == ChatBody(Some(<<"brew install rust">>))

GenerateReplies ==
    { RoutineGenerate, ChatBody(Some(<<>>)), ChatUnreachable,
      ChatStatus("404", None), ChatBody(None) }

GenerateCost(reply) == IF reply = RoutineGenerate THEN 0 ELSE 1

---------------------------------------------------------------------------
(* main *)

\* get_user_prompt; `input` is the Result of reading standard input to its end
get_user_prompt(cli_prompt, input) ==
    IF IsSome(cli_prompt) THEN Ok(Unwrap(cli_prompt))
    ELSE IF ~input.ok THEN Err(input.err)
    ELSE IF Trim(input.val) = <<>>
    THEN Err(<<"No prompt provided via argument or stdin">>)
    ELSE Ok(Trim(input.val))

Prompts == { None, Some(<<>>) } \cup { Some(r) : r \in Requests }
RoutinePrompt == Some(RoutineRequest)

Stdins ==
    { Ok(<<>>), Ok(<<" ", "\n">>), Ok(<<" ", "list files", "\n">>),
      Err(<<"stream did not contain valid UTF-8">>) }
RoutineStdin == Ok(<<>>)

ProviderNames ==
    { NameDuckDuckGo, NameBrave,
      <<"B", "r", "a", "v", "e">>,
      <<"D", "U", "C", "K", "D", "U", "C", "K", "G", "O">>,
      <<"g", "o", "o", "g", "l", "e">>,
      <<"b", "r", "a", "v", "e", "2">> }

ArgsSet ==
    [ prompt : Prompts,
      websearch : BOOLEAN,
      search_provider : {None} \cup { Some(n) : n \in ProviderNames },
      brave_api_key : { None, Some(<<"test-key">>) },
      max_results : MaxResultsValues ]

ArgsCost(a, input) ==
    (IF a.prompt = RoutinePrompt THEN 0 ELSE 1)
    + (IF input = RoutineStdin THEN 0 ELSE 1)
    + (IF a.websearch THEN 0 ELSE 1)
    + (IF a.search_provider = None THEN 0 ELSE 1)
    + (IF a.brave_api_key = None THEN 0 ELSE 1)
    + (IF a.max_results = RoutineMaxResults THEN 0 ELSE 1)

InitMain ==
    /\ mainpc = "start"
    /\ args \in ArgsSet
    /\ stdin \in Stdins
    /\ stdin_read = FALSE
    /\ ArgsCost(args, stdin) <= MaxSurprises
    /\ user_prompt = None
    /\ selected = None
    /\ legacy = None
    /\ generated = <<>>
    /\ stdout = <<>>
    /\ stderr = <<>>
    /\ exit_code = None
    /\ LoopIdle(MaxSurprises - ArgsCost(args, stdin))
    /\ SearchIdle

\* Mutant of ExitWithError: the error line goes to standard output
ExitWithError_OnStdout(line) ==
    /\ stdout' = Append(stdout, line)
    /\ exit_code' = Some(1)
    /\ mainpc' = "exited"
    /\ UNCHANGED stderr

\* eprintln!(...) and std::process::exit(1)
ExitWithError(line) ==
    /\ stderr' = Append(stderr, line)
    /\ exit_code' = Some(1)
    /\ mainpc' = "exited"
    /\ UNCHANGED stdout

\* `let user_prompt = match get_user_prompt(args.prompt.clone())`
GetPrompt ==
    /\ mainpc = "start"
    /\ LET r == get_user_prompt(args.prompt, stdin)
       IN  IF r.ok
           THEN /\ user_prompt' = Some(r.val)
                /\ mainpc' = "dispatch"
                /\ UNCHANGED <<stdout, stderr, exit_code>>
           ELSE /\ ExitWithError(<<"Error reading prompt: ">> \o r.err)
                /\ UNCHANGED user_prompt
    /\ stdin_read' = ~IsSome(args.prompt)
    /\ UNCHANGED <<args, stdin, selected, legacy, generated>>
    /\ UNCHANGED <<loopVars, searchVars>>

\* Mutant of SelectProvider: a failed selection falls back to DuckDuckGo
SelectProvider_Fallback ==
    /\ mainpc = "dispatch"
    /\ args.websearch
    /\ LET r == create_search_provider(args)
           p == IF r.ok THEN r.val ELSE DuckDuckGoProvider
       IN  /\ selected' = Some(p)
           /\ mainpc' = "chat"
           /\ state' = "AwaitingModel"
           /\ messages' = build_initial_messages(Unwrap(user_prompt))
           /\ user_request' = Unwrap(user_prompt)
           /\ provider' = p
           /\ max_results' = args.max_results
           /\ UNCHANGED <<stdout, stderr, exit_code>>
    /\ UNCHANGED <<iteration, pending, outcome, responses, execLog, searches,
                   sent, budget>>
    /\ UNCHANGED <<args, stdin, stdin_read, user_prompt, legacy, generated>>
    /\ UNCHANGED searchVars

\* Websearch mode: create_search_provider, then the entry of chat_with_tools
SelectProvider ==
    /\ mainpc = "dispatch"
    /\ args.websearch
    /\ LET r == create_search_provider(args)
       IN  IF r.ok
           THEN /\ selected' = Some(r.val)
                /\ mainpc' = "chat"
                /\ state' = "AwaitingModel"
                /\ messages' = build_initial_messages(Unwrap(user_prompt))
                /\ user_request' = Unwrap(user_prompt)
                /\ provider' = r.val
                /\ max_results' = args.max_results
                /\ UNCHANGED <<stdout, stderr, exit_code>>
           ELSE /\ ExitWithError(<<"Error: ">> \o r.err)
                /\ UNCHANGED <<selected, state, messages, user_request,
                               provider, max_results>>
    /\ UNCHANGED <<iteration, pending, outcome, responses, execLog, searches,
                   sent, budget>>
    /\ UNCHANGED <<args, stdin, stdin_read, user_prompt, legacy, generated>>
    /\ UNCHANGED searchVars

\* Legacy mode: build_prompt and call_ollama
Generate ==
    /\ mainpc = "dispatch"
    /\ ~args.websearch
    /\ \E reply \in GenerateReplies :
        /\ GenerateCost(reply) <= budget
        /\ budget' = budget - GenerateCost(reply)
        /\ legacy' = Some(call_ollama(reply))
    /\ generated' = Append(generated, build_prompt(Unwrap(user_prompt)))
    /\ mainpc' = "report"
    /\ UNCHANGED <<state, messages, iteration, pending, outcome, user_request,
                   provider, max_results, responses, execLog, searches,
                   sent>>
    /\ UNCHANGED <<args, stdin, stdin_read, user_prompt, selected, stdout,
                   stderr, exit_code>>
    /\ UNCHANGED searchVars

\* `match response`: print the text, or the error and exit(1)
Report ==
    /\ \/ mainpc = "chat" /\ state \in {"Done", "Failed"}
       \/ mainpc = "report"
    /\ LET r == IF mainpc = "chat" THEN Unwrap(outcome) ELSE Unwrap(legacy)
       IN  IF r.ok
           THEN /\ stdout' = Append(stdout, r.val)
                /\ exit_code' = Some(0)
                /\ mainpc' = "exited"
                /\ UNCHANGED stderr
           ELSE ExitWithError(<<"Error: ">> \o r.err)
    /\ UNCHANGED <<args, stdin, stdin_read, user_prompt, selected, legacy,
                   generated>>
    /\ UNCHANGED <<loopVars, searchVars>>

NextMain ==
    \/ GetPrompt
    \/ SelectProvider
    \/ Generate
    \/ CallModel
    \/ ExecuteTool
    \/ Report

SpecMain == InitMain /\ [][NextMain]_vars

---------------------------------------------------------------------------
(* A provider search on its own *)

RecordSet ==
    { GoodRecord1, GoodRecord2, NoTitleRecord, NoUrlRecord, BlankTitleRecord }

RecordLists == UNION { [1..n -> RecordSet] : n \in 0..MaxRecords }

SearchWebs ==
    { Unreachable, BadStatus("503"), Page(FALSE, Some(<<GoodRecord1>>)),
      Page(TRUE, None) }
    \cup { Page(TRUE, Some(rs)) : rs \in RecordLists }

InitSearch ==
    /\ searchIn \in [p : Providers, query : {<<"rust latest version">>},
                     max : 0..(MaxRecords + 1), web : SearchWebs]
    /\ searchOut = None
    /\ LoopIdle(0)
    /\ MainIdle

\* provider.search(query, max_results)
Search ==
    /\ searchOut = None
    /\ searchOut' = Some(ProviderSearch(searchIn.p, searchIn.query,
                                        searchIn.max, searchIn.web))
    /\ UNCHANGED <<searchIn, loopVars, mainVars>>

NextSearch == Search

SpecSearch == InitSearch /\ [][NextSearch]_vars

---------------------------------------------------------------------------
(* Vocabulary of the properties *)

Terminal == state \in {"Done", "Failed"}

ModelCalls == Len(responses)

LastResponse == responses[Len(responses)]

\* The i-th model call succeeded and its message carries at least one ToolCall
RequestedTools(i) ==
    responses[i].ok
    /\ IsSome(responses[i].val.message.tool_calls)
    /\ Len(Unwrap(responses[i].val.message.tool_calls)) >= 1

\* The i-th model call succeeded and its message carries no ToolCall
PlainAnswer(i) ==
    responses[i].ok
    /\ (responses[i].val.message.tool_calls = None
        \/ responses[i].val.message.tool_calls = Some(<<>>))

ToolTurns == { i \in 1..Len(responses) : RequestedTools(i) }

ErrorPrefix == <<"Error executing tool:">>

\* msgs, read from its start, is a sequence of blocks, each an assistant
\* message carrying k >= 1 ToolCalls followed by exactly k tool messages, the
\* i-th of them holding the logged result of the i-th ToolCall; log is the
\* executions it accounts for, in order.
RECURSIVE Blocked(_, _)
Blocked(msgs, log) ==
    IF msgs = <<>> THEN log = <<>>
    ELSE LET m == Head(msgs)
             calls == IF IsSome(m.tool_calls) THEN Unwrap(m.tool_calls) ELSE <<>>
             k == Len(calls)
         IN  /\ m.role = "assistant"
             /\ k >= 1
             /\ Len(msgs) >= 1 + k
             /\ Len(log) >= k
             /\ \A i \in 1..k :
                    /\ msgs[1 + i].role = "tool"
                    /\ msgs[1 + i].tool_calls = None
                    /\ log[i].call = calls[i]
                    /\ msgs[1 + i].content =
                         (IF log[i].result.ok THEN log[i].result.val
                          ELSE ErrorPrefix \o <<" ">> \o log[i].result.err)
             /\ Blocked(SubSeq(msgs, k + 2, Len(msgs)),
                        SubSeq(log, k + 1, Len(log)))

---------------------------------------------------------------------------
(* C1: if every model response carries at least one tool call,             *)
(* chat_with_tools ends with the MaxIterationsExceeded error after exactly *)
(* 10 model calls: a model call is never the 11th, the loop does not end   *)
(* before the 10th, and while it has not ended it is at a model call or at *)
(* a tool call still to execute.                                           *)
C1_CapAfterTenCalls ==
    /\ ModelCalls <= 10
    /\ (state = "AwaitingModel" => ModelCalls < 10)
    /\ (\A i \in 1..ModelCalls : RequestedTools(i)) =>
          /\ Terminal =>
                /\ state = "Failed"
                /\ outcome = Some(Err(MaxIterationsExceeded))
                /\ ModelCalls = 10
          /\ ~Terminal =>
                \/ state = "AwaitingModel"
                \/ state = "ExecutingTools" /\ pending # <<>>
          /\ (ModelCalls = 10 /\ pending = <<>>) => Terminal

C1_Witness ==
    /\ state = "Failed"
    /\ outcome = Some(Err(MaxIterationsExceeded))
    /\ ModelCalls = 10
    /\ \A i \in 1..ModelCalls : RequestedTools(i)

---------------------------------------------------------------------------
\* The run of C2: the model returned one ToolCall, then a plain answer.
C2_Run ==
    /\ state = "Done"
    /\ ModelCalls = 2
    /\ RequestedTools(1)
    /\ Len(Unwrap(responses[1].val.message.tool_calls)) = 1
    /\ PlainAnswer(2)
    /\ Len(execLog) = 1

(* C2 as stated: every message the model returned is in the conversation,  *)
(* the final answer included; after one ToolCall and a plain answer the    *)
(* conversation is [system, user, assistant(ToolCall), tool(result),       *)
(* assistant(final answer)] and the returned text is the content of the    *)
(* last message.                                                           *)
C2_FinalAnswerAppended ==
    C2_Run =>
        /\ Len(messages) = 5
        /\ messages[1].role = "system"
        /\ messages[2].role = "user"
        /\ messages[3] = responses[1].val.message
        /\ messages[4].role = "tool"
        /\ messages[4].content = ToolResultText(execLog[1].result)
        /\ messages[5] = responses[2].val.message
        /\ outcome = Some(Ok(messages[5].content))

(* C2 amended: the messages of the conversation after the first two are    *)
(* the model's messages that carry a ToolCall, each followed by its tool   *)
(* messages; the final answer is returned and not appended.  After one     *)
(* ToolCall and a plain answer the conversation is [system, user,          *)
(* assistant(ToolCall), tool(result)] and the returned text is the content *)
(* of the model's last response.                                           *)
C2_FinalAnswerReturnedNotAppended ==
    /\ Terminal =>
          /\ Len(messages) = 2 + Cardinality(ToolTurns) + Len(execLog)
          /\ \A i \in 1..ModelCalls :
                PlainAnswer(i) =>
                    /\ i = ModelCalls
                    /\ outcome = Some(Ok(responses[i].val.message.content))
    /\ C2_Run =>
          /\ Len(messages) = 4
          /\ messages[1].role = "system"
          /\ messages[2].role = "user"
          /\ messages[2].content = user_request
          /\ messages[3].role = "assistant"
          /\ messages[3] = responses[1].val.message
          /\ messages[4].role = "tool"
          /\ messages[4].content = ToolResultText(execLog[1].result)
          /\ outcome = Some(Ok(responses[2].val.message.content))

C2_Witness ==
    /\ C2_Run
    /\ execLog[1].result.ok
    /\ responses[2].val.message.content # <<>>

---------------------------------------------------------------------------
(* C3: whenever the loop is about to call the model or has ended, the      *)
(* conversation after [system, user] is a sequence of blocks: an assistant *)
(* message carrying k >= 1 ToolCalls directly followed by exactly k tool   *)
(* messages, the i-th being the result of the i-th ToolCall.  So every     *)
(* tool message lies in such a block.                                      *)
C3_ToolMessagesFollowTheirCalls ==
    state \in {"AwaitingModel", "Done", "Failed"} =>
        /\ Len(messages) >= 2
        /\ messages[1].role = "system"
        /\ messages[2].role = "user"
        /\ Blocked(SubSeq(messages, 3, Len(messages)), execLog)

C3_Witness ==
    /\ state = "AwaitingModel"
    /\ \E i \in 3..Len(messages) :
          /\ messages[i].role = "assistant"
          /\ Len(Unwrap(messages[i].tool_calls)) = 2
          /\ Len(messages) >= i + 2
          /\ messages[i + 1].role = "tool"
          /\ messages[i + 2].role = "tool"
          /\ messages[i + 1].content # messages[i + 2].content
          /\ StartsWith(messages[i + 1].content, ErrorPrefix)

---------------------------------------------------------------------------
\* A step in which execute_tool was called and returned an error
ToolFailureStep ==
    /\ Len(execLog') = Len(execLog) + 1
    /\ ~execLog'[Len(execLog')].result.ok

\* What C4 says of a failed tool execution apart from where the loop goes
\* after the turn's last call: a tool message starting with the error prefix
\* is appended, and the rest of the turn's calls stay to be executed.
ToolFailureDelivered ==
    /\ Len(messages') = Len(messages) + 1
    /\ SubSeq(messages', 1, Len(messages)) = messages
    /\ messages'[Len(messages')].role = "tool"
    /\ StartsWith(messages'[Len(messages')].content, ErrorPrefix)
    /\ pending' = Tail(pending)
    /\ pending' # <<>> => state' = "ExecutingTools" /\ outcome' = None

(* C4 as stated: a failed tool execution never puts the loop in Failed; it *)
(* appends a tool message starting with "Error executing tool:", the       *)
(* remaining calls of the turn are still executed, and the loop goes on to *)
(* the next model call.                                                    *)
C4_ToolFailureNeverFails ==
    [][ ToolFailureStep =>
          /\ ToolFailureDelivered
          /\ state' # "Failed"
          /\ pending' = <<>> => state' = "AwaitingModel" ]_vars

(* C4 amended: a failed tool execution never makes the loop return the     *)
(* tool's error; it appends a tool message starting with "Error executing  *)
(* tool:", the remaining calls of the turn are still executed, and after   *)
(* the turn's last call the loop goes on to the next model call, unless    *)
(* the turn was the 10th, where the loop ends in Failed with               *)
(* MaxIterationsExceeded.                                                  *)
C4_ToolFailureIsDelivered ==
    [][ ToolFailureStep =>
          /\ ToolFailureDelivered
          /\ pending' = <<>> =>
                IF ModelCalls < 10
                THEN state' = "AwaitingModel" /\ outcome' = None
                ELSE /\ state' = "Failed"
                     /\ outcome' = Some(Err(MaxIterationsExceeded)) ]_vars

\* A provider failure in the first call of a two-call turn, the second call
\* executed and the next model call made.
C4_Witness ==
    \E j \in 1..Len(execLog) :
        /\ execLog[j].call = SearchCall
        /\ ~execLog[j].result.ok
        /\ j < Len(execLog)
        /\ execLog[j + 1].turn = execLog[j].turn
        /\ ModelCalls > execLog[j].turn
        /\ \E i \in 1..Len(messages) :
              StartsWith(messages[i].content, ErrorPrefix)

---------------------------------------------------------------------------
\* The arguments of a tool call hold a "query" field that is a string
HasStringQuery(arguments) ==
    /\ arguments.kind = "object"
    /\ "query" \in DOMAIN arguments.fields
    /\ arguments.fields["query"].kind = "string"

(* C5: every execute_tool call for a name other than "web_search" returned *)
(* the UnknownTool error, and every "web_search" call whose arguments had  *)
(* no string "query" returned the MissingParameter error; neither returned *)
(* a result text.                                                          *)
C5_UnknownToolAndMissingParameter ==
    \A j \in 1..Len(execLog) :
        LET e == execLog[j]
            name == e.call.function.name
        IN  /\ name # "web_search" =>
                  /\ ~e.result.ok
                  /\ e.result = Err(<<"Unknown tool: ", name>>)
            /\ (name = "web_search"
                /\ ~HasStringQuery(e.call.function.arguments)) =>
                  /\ ~e.result.ok
                  /\ e.result =
                       Err(<<"Missing 'query' parameter in tool call">>)

C5_Witness ==
    /\ \E j \in 1..Len(execLog) :
          /\ execLog[j].call = UnknownCall
          /\ execLog[j].result = Err(UnknownTool("calculator"))
    /\ \E j \in 1..Len(execLog) :
          /\ execLog[j].call \in {NoQueryCall, NumQueryCall}
          /\ execLog[j].result = Err(MissingParameter)

---------------------------------------------------------------------------
(* C8: a failed model call is the last event of the run: it is the last    *)
(* model call (no retry, no further call), the loop is in Failed with that *)
(* call's error as its result, no tool was executed for or after it, and   *)
(* the conversation holds nothing for it: only the first two messages, the *)
(* earlier tool-calling messages and their tool messages.                  *)
C8_ModelFailureAborts ==
    /\ \A i \in 1..ModelCalls : ~responses[i].ok => i = ModelCalls
    /\ (ModelCalls >= 1 /\ ~LastResponse.ok) =>
          /\ state = "Failed"
          /\ outcome = Some(Err(LastResponse.err))
          /\ pending = <<>>
          /\ \A j \in 1..Len(execLog) : execLog[j].turn < ModelCalls
          /\ Len(messages) = 2 + (ModelCalls - 1) + Len(execLog)
          /\ Blocked(SubSeq(messages, 3, Len(messages)), execLog)

C8_Witness ==
    /\ ModelCalls = 3
    /\ ~LastResponse.ok
    /\ state = "Failed"
    /\ Len(execLog) >= 2

---------------------------------------------------------------------------
(* C9: the loop is in Done exactly when the last model response carries no *)
(* ToolCall (tool_calls absent or an empty list); that response is one of  *)
(* the first 10, the value returned is its content and no tool was         *)
(* executed for it; a response carrying ToolCalls never leaves the loop in *)
(* Done.                                                                   *)
C9_DoneIffNoToolCalls ==
    /\ state = "Done" <=> (ModelCalls >= 1 /\ PlainAnswer(ModelCalls))
    /\ state = "Done" =>
          /\ ModelCalls <= 10
          /\ outcome = Some(Ok(LastResponse.val.message.content))
          /\ \A j \in 1..Len(execLog) : execLog[j].turn < ModelCalls
    /\ (ModelCalls >= 1 /\ RequestedTools(ModelCalls)) => state # "Done"

C9_Witness ==
    /\ state = "Done"
    /\ ModelCalls = 10
    /\ LastResponse.val.message.tool_calls = Some(<<>>)

---------------------------------------------------------------------------
(* C10: before the first model call the conversation has exactly two       *)
(* messages, a system message and a user message whose content is the raw  *)
(* request, both without tool calls.                                       *)
C10_InitialConversation ==
    ModelCalls = 0 =>
        /\ Len(messages) = 2
        /\ messages[1].role = "system"
        /\ messages[1].tool_calls = None
        /\ messages[2].role = "user"
        /\ messages[2].content = user_request
        /\ messages[2].tool_calls = None

C10_Witness ==
    /\ ModelCalls = 0
    /\ state = "AwaitingModel"
    /\ user_request = <<" ", "list files", "\n">>
    /\ messages[2].content = <<" ", "list files", "\n">>

---------------------------------------------------------------------------
\* The records of a source list as the provider reads them
Extracted(p, rs) == IF p.name = "duckduckgo" THEN MapDdg(rs) ELSE MapBrave(rs)

\* The records of rs that have a title and a url, in order
RECURSIVE WithTitleAndUrl(_)
WithTitleAndUrl(rs) ==
    IF rs = <<>> THEN <<>>
    ELSE IF Head(rs).title # <<>> /\ Head(rs).url # <<>>
    THEN <<Head(rs)>> \o WithTitleAndUrl(Tail(rs))
    ELSE WithTitleAndUrl(Tail(rs))

\* A search on its own that was answered with a list of source records
SearchedRecords ==
    /\ searchOut # None
    /\ searchIn.web.kind = "page"
    /\ searchIn.web.parses
    /\ searchIn.web.results # None

(* C6: a record missing a title or a url is dropped and does not count     *)
(* toward max_results: a search answered with a list of source records     *)
(* returns the first max_results well-formed records (all of them when     *)
(* there are fewer), in source order.                                      *)
C6_MalformedRecordsDoNotCount ==
    SearchedRecords =>
        /\ Unwrap(searchOut).ok
        /\ Unwrap(searchOut).val =
             Take(WithTitleAndUrl(Extracted(searchIn.p,
                                            Unwrap(searchIn.web.results))),
                  searchIn.max)

---------------------------------------------------------------------------
\* main is past create_search_provider
ProviderDecided ==
    /\ mainpc \in {"chat", "exited"}
    /\ args.websearch
    /\ user_prompt # None

\* create_search_provider returned this provider
Selected(p) == selected = Some(p) /\ provider = p

\* create_search_provider returned this error, which ended the run
SelectionFailed(err) ==
    /\ selected = None
    /\ mainpc = "exited"
    /\ exit_code = Some(1)
    /\ stderr = << <<"Error: ">> \o err >>
    /\ ModelCalls = 0

\* The name is one of the two provider names, whatever its case
Recognized(name) ==
    to_lowercase(name) \in { <<"d", "u", "c", "k", "d", "u", "c", "k", "g", "o">>,
                             <<"b", "r", "a", "v", "e">> }

(* C7: provider selection follows the table: explicit "duckduckgo" gives   *)
(* DuckDuckGo with or without a key; no name and no key gives DuckDuckGo;  *)
(* no name and a key gives Brave; explicit "brave" without a key gives the *)
(* MissingCredential error; explicit "brave" with a key gives Brave; an    *)
(* explicit unrecognized name gives the UnknownProvider error with or      *)
(* without a key.                                                          *)
C7_ProviderSelectionTable ==
    ProviderDecided =>
        LET explicit == args.search_provider
            key == args.brave_api_key
        IN  /\ explicit = Some(<<"d", "u", "c", "k", "d", "u", "c", "k", "g", "o">>)
                  => Selected([name |-> "duckduckgo"])
            /\ (explicit = None /\ key = None)
                  => Selected([name |-> "duckduckgo"])
            /\ (explicit = None /\ key # None)
                  => Selected([name |-> "brave", api_key |-> key[1]])
            /\ (explicit = Some(<<"b", "r", "a", "v", "e">>) /\ key = None)
                  => SelectionFailed(MissingCredential)
            /\ (explicit = Some(<<"b", "r", "a", "v", "e">>) /\ key # None)
                  => Selected([name |-> "brave", api_key |-> key[1]])
            /\ (explicit # None /\ ~Recognized(explicit[1]))
                  => /\ selected = None
                     /\ mainpc = "exited"
                     /\ exit_code = Some(1)
                     /\ Len(stderr) = 1
                     /\ StartsWith(stderr[1],
                                   <<"Error: ", "Unknown search provider: '">>)
                     /\ ModelCalls = 0

C7_Witness ==
    /\ ProviderDecided
    /\ args.search_provider = Some(<<"b", "r", "a", "v", "e">>)
    /\ args.brave_api_key = None
    /\ SelectionFailed(MissingCredential)


---------------------------------------------------------------------------
\* Number of tool messages appended before the i-th model call
ExecutedBefore(i) ==
    Cardinality({ k \in 1..Len(execLog) : execLog[k].turn < i })

\* The declaration list holds exactly one tool, "web_search", whose
\* parameter schema requires a "query" of type string
DeclaresWebSearchOnly(tools) ==
    /\ IsSome(tools)
    /\ Len(Unwrap(tools)) = 1
    /\ Unwrap(tools)[1].function.name = "web_search"
    /\ Unwrap(tools)[1].function.parameters.required = <<"query">>
    /\ Unwrap(tools)[1].function.parameters.properties.query.type = "string"

(* C11: every model call sends the whole conversation as it stands at the  *)
(* call (the initial two messages, every assistant message pushed so far   *)
(* and every tool message pushed so far) together with the same tool       *)
(* declaration list, which holds exactly one entry, "web_search", whose    *)
(* schema requires a string "query"; the list of the first call is the     *)
(* list of every later call.                                               *)
C11_EveryCallSendsConversationAndTools ==
    /\ Len(sent) = Len(responses)
    /\ \A i \in 1..Len(sent) :
        /\ Len(sent[i].messages) = 2 + (i - 1) + ExecutedBefore(i)
        /\ sent[i].messages = SubSeq(messages, 1, Len(sent[i].messages))
        /\ DeclaresWebSearchOnly(sent[i].tools)
        /\ sent[i].tools = sent[1].tools

\* a third model call, made after two turns of tool calls
C11_Witness ==
    /\ Len(sent) >= 3
    /\ Len(sent[3].messages) >= 6
    /\ Len(sent[1].messages) = 2


---------------------------------------------------------------------------
\* The run has failed: no prompt, no provider, a failed model call (chat or
\* generate) or the iteration cap
RunFailed ==
    \/ ~get_user_prompt(args.prompt, stdin).ok
    \/ args.websearch /\ ~create_search_provider(args).ok
    \/ IsSome(outcome) /\ ~Unwrap(outcome).ok
    \/ IsSome(legacy) /\ ~Unwrap(legacy).ok

\* The text the run has to print: the content of the last chat response, or
\* the text of the generate call
FinalText ==
    IF args.websearch THEN LastResponse.val.message.content
    ELSE Unwrap(legacy).val

(* C12: every run of main ends in exactly one of two outcomes: exit code 0 *)
(* with the final text, and nothing else, on standard output and nothing   *)
(* on standard error, or exit code 1 with one error line on standard error *)
(* and nothing on standard output. A run that has not ended has written    *)
(* nothing and can take a step; a failed run never writes to standard      *)
(* output.                                                                 *)
C12_OneOfTwoOutcomes ==
    /\ mainpc \in {"start", "dispatch", "chat", "report", "exited"}
    /\ mainpc = "chat" =>
           \/ state = "AwaitingModel"
           \/ state = "ExecutingTools" /\ pending # <<>>
           \/ Terminal /\ IsSome(outcome)
    /\ mainpc = "report" => IsSome(legacy)
    /\ mainpc # "exited" => exit_code = None /\ stdout = <<>> /\ stderr = <<>>
    /\ mainpc = "exited" =>
           \/ /\ exit_code = Some(0)
              /\ ~RunFailed
              /\ stdout = <<FinalText>>
              /\ stderr = <<>>
           \/ /\ exit_code = Some(1)
              /\ RunFailed
              /\ stdout = <<>>
              /\ Len(stderr) = 1
              /\ (StartsWith(stderr[1], <<"Error: ">>)
                  \/ StartsWith(stderr[1], <<"Error reading prompt: ">>))
    /\ RunFailed => stdout = <<>>

\* a run that ended with exit code 1 at the iteration cap
C12_Witness ==
    /\ mainpc = "exited"
    /\ exit_code = Some(1)
    /\ outcome = Some(Err(MaxIterationsExceeded))
    /\ stderr = << <<"Error: ">> \o MaxIterationsExceeded >>


---------------------------------------------------------------------------
(* C13: mode dispatch. With websearch disabled the run, once it has its    *)
(* prompt, makes exactly one generate call, and it never makes a chat      *)
(* call, selects a provider or executes a tool or a search. With websearch *)
(* enabled no generate call is made, every chat call is made with the      *)
(* provider selected before it, and when the selection fails the run ends  *)
(* with exit code 1 and the selection error, without any chat call.        *)
C13_ModeDispatch ==
    /\ ~args.websearch =>
        /\ Len(generated) = (IF mainpc \in {"start", "dispatch"} \/ user_prompt = None
                             THEN 0 ELSE 1)
        /\ Len(sent) = 0 /\ ModelCalls = 0
        /\ selected = None
        /\ execLog = <<>> /\ searches = <<>>
    /\ args.websearch =>
        /\ Len(generated) = 0 /\ legacy = None
        /\ Len(sent) >= 1 =>
              /\ create_search_provider(args).ok
              /\ selected = Some(create_search_provider(args).val)
              /\ provider = Unwrap(selected)
        /\ ~create_search_provider(args).ok =>
              /\ Len(sent) = 0 /\ ModelCalls = 0
              /\ selected = None
              /\ mainpc \in {"start", "dispatch", "exited"}
              /\ (mainpc = "exited" /\ user_prompt # None) =>
                    /\ exit_code = Some(1)
                    /\ stderr = << <<"Error: ">> \o create_search_provider(args).err >>

\* a run without websearch that made its one generate call, and ended
C13_Witness ==
    /\ ~args.websearch
    /\ mainpc = "exited"
    /\ Len(generated) = 1
    /\ generated[1] = build_prompt(RoutineRequest)


---------------------------------------------------------------------------
\* The prompt the run obtains, from the positional argument or, in its
\* absence, from trimmed standard input, is empty
EmptyPromptObtained ==
    \/ args.prompt = Some(<<>>)
    \/ args.prompt = None /\ stdin.ok /\ Trim(stdin.val) = <<>>

EmptyInput ==
    <<"Error reading prompt: ", "No prompt provided via argument or stdin">>

(* C14: an empty prompt never reaches the model. When the prompt obtained  *)
(* from the positional argument or, in its absence, from trimmed standard  *)
(* input is empty, no provider is selected and no model call (chat or      *)
(* generate) is made, and the run ends with exit code 1 and the EmptyInput *)
(* error; standard input is read only when the positional argument is      *)
(* absent.                                                                 *)
C14_EmptyPromptNeverReachesModel ==
    /\ EmptyPromptObtained =>
        /\ selected = None
        /\ Len(sent) = 0 /\ Len(generated) = 0
        /\ mainpc \in {"start", "exited"}
        /\ mainpc = "exited" =>
              exit_code = Some(1) /\ stderr = <<EmptyInput>>
    /\ stdin_read => args.prompt = None


---------------------------------------------------------------------------
(* C15: the conversation is an append-only log: in every step of the loop  *)
(* the conversation before the step is a prefix of the conversation after  *)
(* it, so no message is removed, reordered or changed once appended.       *)
C15_ConversationAppendOnly ==
    [][ /\ Len(messages) <= Len(messages')
        /\ SubSeq(messages', 1, Len(messages)) = messages ]_vars

\* a conversation that grew by two turns of tool calls
C15_Witness ==
    /\ Len(messages) >= 6
    /\ Len(responses) >= 2
    /\ Len(execLog) >= 2


---------------------------------------------------------------------------
(* C16: whatever the model and the search provider answer (a result or a   *)
(* failure, each call returning), the loop eventually reaches Done or      *)
(* Failed; it never makes more than 10 model calls; and once it is in Done *)
(* or Failed no step makes a model call, executes a tool or changes the    *)
(* conversation.                                                           *)
C16_TerminatesWithinTenCalls ==
    /\ <>Terminal
    /\ [](Len(sent) <= 10 /\ ModelCalls <= 10)
    /\ [][Terminal =>
            /\ Terminal'
            /\ UNCHANGED <<state, outcome, messages, sent, responses,
                           execLog, searches>>]_vars

\* the loop ended in Done after a failed search was delivered to the model
C16_Witness ==
    /\ state = "Done"
    /\ ModelCalls >= 2
    /\ \E k \in 1..Len(execLog) : ~execLog[k].result.ok


---------------------------------------------------------------------------
\* The tool calls executed for the i-th model response, in execution order
ExecutedOfTurn(i) ==
    LET es == SelectSeq(execLog, LAMBDA e : e.turn = i)
    IN  [k \in 1..Len(es) |-> es[k].call]

\* The tool calls the i-th model response carries
CallsOfTurn(i) == Unwrap(responses[i].val.message.tool_calls)

\* The last n messages of the conversation msgs
LastMessages(msgs, n) == SubSeq(msgs, Len(msgs) - n + 1, Len(msgs))

(* C17: every ToolCall of an assistant message the model returned is       *)
(* passed to execute_tool exactly once, in the order of the message: the   *)
(* executions of a turn are, in order, the calls of its message that are   *)
(* no longer pending. All of them are executed, and their tool messages    *)
(* appended, before the next model call: the request of the next call ends *)
(* with one tool message per call, and nothing is executed for a response  *)
(* without tool calls or a failed call.                                    *)
C17_EachToolCallExecutedOnceInOrder ==
    /\ \A i \in 1..ModelCalls :
        IF RequestedTools(i)
        THEN /\ ExecutedOfTurn(i) \o (IF i = ModelCalls THEN pending ELSE <<>>)
                  = CallsOfTurn(i)
             /\ i < ModelCalls =>
                  /\ Len(sent[i + 1].messages)
                       = Len(sent[i].messages) + 1 + Len(CallsOfTurn(i))
                  /\ LET tail == LastMessages(sent[i + 1].messages,
                                              Len(CallsOfTurn(i)))
                     IN  \A k \in 1..Len(tail) : tail[k].role = "tool"
        ELSE ExecutedOfTurn(i) = <<>>
    /\ state = "AwaitingModel" => pending = <<>>
    /\ \A k \in 1..Len(execLog) : execLog[k].turn \in 1..ModelCalls

\* a response with two tool calls, both executed before the next model call
C17_Witness ==
    /\ ModelCalls >= 2
    /\ RequestedTools(1)
    /\ Len(CallsOfTurn(1)) = 2
    /\ CallsOfTurn(1)[1] # CallsOfTurn(1)[2]
    /\ ExecutedOfTurn(1) = CallsOfTurn(1)


---------------------------------------------------------------------------
(* C18: in every reachable conversation no two assistant messages are      *)
(* adjacent: between any two assistant messages there is at least one tool *)
(* message.                                                                *)
C18_NoAdjacentAssistantMessages ==
    /\ \A i \in 1..(Len(messages) - 1) :
          ~(messages[i].role = "assistant" /\ messages[i + 1].role = "assistant")
    /\ \A i, j \in 1..Len(messages) :
          (i < j /\ messages[i].role = "assistant"
                 /\ messages[j].role = "assistant")
          => \E k \in (i + 1)..(j - 1) : messages[k].role = "tool"

\* a conversation holding three assistant messages
C18_Witness ==
    Cardinality({ i \in 1..Len(messages) : messages[i].role = "assistant" }) >= 3


---------------------------------------------------------------------------
\* a is b with some of its elements left out: the order of b is kept
RECURSIVE IsSubsequence(_, _)
IsSubsequence(a, b) ==
    IF a = <<>> THEN TRUE
    ELSE IF b = <<>> THEN FALSE
    ELSE IF Head(a) = Head(b) THEN IsSubsequence(Tail(a), Tail(b))
    ELSE IsSubsequence(a, Tail(b))

\* The source records a search on its own was answered with
SourceRecords ==
    IF searchIn.web.kind = "page" /\ IsSome(searchIn.web.results)
    THEN Unwrap(searchIn.web.results) ELSE <<>>

(* C19: a successful search of either provider returns at most max_results *)
(* results, every one of them with a non-empty title and a non-empty url,  *)
(* in the relative order of the source records; with max_results = 0 it    *)
(* returns no result.                                                      *)
C19_SearchResultsCappedWellFormedOrdered ==
    (searchOut # None /\ Unwrap(searchOut).ok) =>
        LET results == Unwrap(searchOut).val
        IN  /\ Len(results) <= searchIn.max
            /\ \A i \in 1..Len(results) :
                  results[i].title # <<>> /\ results[i].url # <<>>
            /\ IsSubsequence(results, Extracted(searchIn.p, SourceRecords))
            /\ searchIn.max = 0 => results = <<>>

\* a search that was cut at max_results = 2 out of three source records
C19_Witness ==
    /\ searchOut # None
    /\ Unwrap(searchOut).ok
    /\ searchIn.max = 2
    /\ Len(SourceRecords) = 3
    /\ Len(Unwrap(searchOut).val) = 2
    /\ WithTitleAndUrl(Extracted(searchIn.p, SourceRecords))
         # Unwrap(searchOut).val


---------------------------------------------------------------------------
\* The places of the assistant messages in the conversation
AssistantPlaces == { i \in 1..Len(messages) : messages[i].role = "assistant" }

\* The place of the last assistant message of the conversation
LastAssistantPlace ==
    CHOOSE i \in AssistantPlaces : \A j \in AssistantPlaces : j <= i

(* C20: when the iteration cap trips, the tool calls of the 10th model     *)
(* response have been executed and their tool messages appended: at Failed *)
(* with MaxIterationsExceeded the conversation after [system, user] is 10  *)
(* blocks, each an assistant message followed by the tool messages of its  *)
(* calls, the 10th block holding every call of the 10th response; and the  *)
(* tool messages of the last block are in no request sent to the model.    *)
C20_LastToolResultsNeverSent ==
    (state = "Failed" /\ outcome = Some(Err(MaxIterationsExceeded))) =>
        /\ ModelCalls = 10 /\ Len(sent) = 10
        /\ \A i \in 1..10 : RequestedTools(i)
        /\ pending = <<>>
        /\ Cardinality(AssistantPlaces) = 10
        /\ Blocked(SubSeq(messages, 3, Len(messages)), execLog)
        /\ messages[LastAssistantPlace] = responses[10].val.message
        /\ Len(messages) = LastAssistantPlace + Len(CallsOfTurn(10))
        /\ ExecutedOfTurn(10) = CallsOfTurn(10)
        /\ \A k \in (LastAssistantPlace + 1)..Len(messages) :
              messages[k].role = "tool"
        /\ \A i \in 1..Len(sent) :
              Len(sent[i].messages) < LastAssistantPlace

\* the cap tripped on a 10th response that carried two tool calls
C20_Witness ==
    /\ state = "Failed"
    /\ outcome = Some(Err(MaxIterationsExceeded))
    /\ Len(CallsOfTurn(10)) = 2
    /\ Len(messages) = LastAssistantPlace + 2


---------------------------------------------------------------------------
\* The executions of "web_search" tool calls whose "query" is a string
StringQueryExecutions ==
    SelectSeq(execLog,
              LAMBDA e : /\ e.call.function.name = "web_search"
                         /\ HasStringQuery(e.call.function.arguments))

(* C21: the provider's search is invoked only by a "web_search" tool call  *)
(* whose "query" argument is a string, once for each execution of such a   *)
(* call, with that string and with the max_results of the command line: a  *)
(* tool call with another name or without a string query never reaches the *)
(* provider. A search happens only in a step of ExecutingTools that        *)
(* executes one tool call.                                                 *)
C21_SearchOnlyFromWebSearchCalls ==
    /\ [](searches =
             [k \in 1..Len(StringQueryExecutions) |->
                LET e == StringQueryExecutions[k]
                IN  [turn |-> e.turn, call |-> e.call,
                     query |-> e.call.function.arguments.fields["query"].str,
                     max |-> args.max_results]])
    /\ [][searches' # searches =>
            /\ state = "ExecutingTools"
            /\ Len(searches') = Len(searches) + 1
            /\ Len(execLog') = Len(execLog) + 1]_vars

\* a run that executed a tool call of another name, a "web_search" call with
\* a number as query and a "web_search" call that reached the provider
C21_Witness ==
    /\ mainpc = "exited"
    /\ Len(searches) = 1
    /\ \E k \in 1..Len(execLog) :
          execLog[k].call.function.name # "web_search"
    /\ \E k \in 1..Len(execLog) :
          /\ execLog[k].call.function.name = "web_search"
          /\ ~HasStringQuery(execLog[k].call.function.arguments)


---------------------------------------------------------------------------
\* The run ended with the UnknownProvider error
UnknownProviderReported ==
    /\ selected = None
    /\ mainpc = "exited"
    /\ exit_code = Some(1)
    /\ Len(stderr) = 1
    /\ StartsWith(stderr[1], <<"Error: ", "Unknown search provider: '">>)

(* C22: an explicitly named provider is matched case-insensitively: a name *)
(* that is "duckduckgo" after lower-casing selects DuckDuckGo, a name that *)
(* is "brave" after lower-casing selects Brave with the key, or gives the  *)
(* MissingCredential error without one, as the lower-case names do; the    *)
(* UnknownProvider error is given exactly for the names that differ from   *)
(* both after lower-casing.                                                *)
C22_ProviderNameCaseInsensitive ==
    (ProviderDecided /\ args.search_provider # None) =>
        LET lower == to_lowercase(Unwrap(args.search_provider))
            key == args.brave_api_key
            isDuckDuckGo ==
                lower = <<"d", "u", "c", "k", "d", "u", "c", "k", "g", "o">>
            isBrave == lower = <<"b", "r", "a", "v", "e">>
        IN  /\ isDuckDuckGo => Selected([name |-> "duckduckgo"])
            /\ (isBrave /\ key # None)
                  => Selected([name |-> "brave", api_key |-> key[1]])
            /\ (isBrave /\ key = None) => SelectionFailed(MissingCredential)
            /\ UnknownProviderReported <=> (~isDuckDuckGo /\ ~isBrave)

\* "Brave", written with a capital, selected the Brave provider
C22_Witness ==
    /\ ProviderDecided
    /\ args.search_provider = Some(<<"B", "r", "a", "v", "e">>)
    /\ Selected([name |-> "brave", api_key |-> <<"test-key">>])
    /\ ModelCalls >= 1


=============================================================================
